---- MODULE Spec2Model ----
(***************************************************************************)
(* Watch-Time Booster: the duration codec (src/yt_fetch.py), the score     *)
(* engine, single-video analysis and the batch ranker (src/analytics.py),  *)
(* the recommender (src/recommender.py) and the dashboard session          *)
(* (src/dashboard.py).                                                     *)
(*                                                                         *)
(* Python values are modelled as follows.                                  *)
(*   - an optional value (None or a value v) is the tuple <<>> or <<v>>;   *)
(*   - a text is a tuple of one-character strings;                         *)
(*   - a dict is a function whose DOMAIN is the set of keys present;       *)
(*   - a float that is the quotient of two integers is the exact rational  *)
(*     [num, den] with den > 0, compared by cross-multiplication (for the  *)
(*     magnitudes used here the IEEE quotient compares with the decimal    *)
(*     literals 0.05, 0.02, 0.005 exactly as the rational does);           *)
(*   - a call that raises returns [raised |-> TRUE, error |-> name].       *)
(***************************************************************************)
EXTENDS Integers, Sequences, FiniteSets, TLC

VARIABLES
    pc,               \* "ready", then the name of the step that was taken last
    d,                \* duration codec: the argument of parse_iso8601_duration
    seconds,          \* duration codec: what parse_iso8601_duration returned,
                      \* or the argument of format_duration
    duration_formatted, \* duration codec: what format_duration returned
    video_data,       \* analytics: the video dict handed to the function called
    engagement_rate,  \* analytics: the engagement_rate argument / local (line 41)
    optimization_score, \* analytics: the optimization_score argument / local (line 54)
    result,           \* analytics: what the function called returned or raised
    df,               \* batch ranker: the DataFrame handed to compute_potential
    ranked,           \* batch ranker: the DataFrame compute_potential returned
    analysis_data,    \* recommender: the analysis dict handed to the function called
    n_clusters,       \* recommender: the n_clusters argument of cluster_videos
    topk_per_cluster, \* recommender: the topk_per_cluster argument of suggest_playlists
    session_state     \* dashboard: st.session_state (video_data and analysis)

vars == <<pc, d, seconds, duration_formatted, video_data, engagement_rate,
          optimization_score, result, df, ranked, analysis_data, n_clusters,
          topk_per_cluster, session_state>>

codecVars == <<d, seconds, duration_formatted>>
recommenderVars == <<analysis_data, n_clusters, topk_per_cluster>>
sessionVars == <<session_state>>
analyticsVars == <<video_data, engagement_rate, optimization_score, result>>
rankVars == <<df, ranked>>

-----------------------------------------------------------------------------
(* Python values *)

None == <<>>
Some(v) == <<v>>
IsNone(x) == x = <<>>
Val(x) == x[1]

Max(a, b) == IF a >= b THEN a ELSE b
Min(a, b) == IF a <= b THEN a ELSE b

\* dict.get(key, default): the default only when the key is missing
Get(dict, key, default) == IF key \in DOMAIN dict THEN dict[key] ELSE default

Raised(error) == [raised |-> TRUE, error |-> error]
Returned(value) == [raised |-> FALSE, value |-> value]

\* the rational a / b (b > 0)
Rat(a, b) == [num |-> a, den |-> b]
RatLT(r, s) == r.num * s.den < s.num * r.den
RatGT(r, s) == r.num * s.den > s.num * r.den
RatEQ(r, s) == r.num * s.den = s.num * r.den

\* int(a / b) for b > 0: truncation toward zero
TruncDiv(a, b) == IF a >= 0 THEN a \div b ELSE -((-a) \div b)

-----------------------------------------------------------------------------
(* Duration codec: src/yt_fetch.py parse_iso8601_duration *)

MaxTextLen == 5

Digits == {"0", "1", "2", "3", "4", "5", "6", "7", "8", "9"}

DigitVal(c) ==
    CASE c = "0" -> 0 [] c = "1" -> 1 [] c = "2" -> 2 [] c = "3" -> 3
      [] c = "4" -> 4 [] c = "5" -> 5 [] c = "6" -> 6 [] c = "7" -> 7
      [] c = "8" -> 8 [] c = "9" -> 9

\* first index >= i of text s that holds no digit (Len(s) + 1 at the end)
RECURSIVE DigitsEnd(_, _)
DigitsEnd(s, i) ==
    IF i <= Len(s) /\ s[i] \in Digits THEN DigitsEnd(s, i + 1) ELSE i

\* the decimal number s[i .. j-1]
RECURSIVE Number(_, _, _)
Number(s, i, j) ==
    IF j <= i THEN 0 ELSE Number(s, i, j - 1) * 10 + DigitVal(s[j - 1])

\* The components of isodate's ISO8601_PERIOD_REGEX in order: years, months,
\* weeks, days, the separator T, hours, minutes, seconds. Each is optional.
Designator == <<"Y", "M", "W", "D", "T", "H", "M", "S">>
Separator == 5

\* What one unit of the component contributes to timedelta.total_seconds().
\* Years and months are kept outside the timedelta (isodate's Duration), so
\* they add nothing to total_seconds().
UnitSeconds == <<0, 0, 604800, 86400, 0, 3600, 60, 1>>

\* The stages a component found at `stage` may belong to: before the
\* separator only the date components, after it only the time components.
Candidates(stage, letter) ==
    {k \in stage .. 8 :
        /\ Designator[k] = letter
        /\ k # Separator
        /\ (stage <= Separator) = (k < Separator)}

\* Match s[i ..] against the components from `stage` on; total is the
\* seconds matched so far.
RECURSIVE MatchPeriod(_, _, _, _)
MatchPeriod(s, i, stage, total) ==
    IF i > Len(s) THEN [ok |-> TRUE, total |-> total]
    ELSE IF s[i] = "T" /\ stage <= Separator
    THEN MatchPeriod(s, i + 1, Separator + 1, total)
    ELSE IF s[i] \in Digits
    THEN LET j == DigitsEnd(s, i)
             ks == IF j <= Len(s) THEN Candidates(stage, s[j]) ELSE {}
         IN  IF ks = {} THEN [ok |-> FALSE, total |-> 0]
             ELSE LET k == CHOOSE x \in ks : \A y \in ks : x <= y
                  IN  MatchPeriod(s, j + 1, k + 1,
                                  total + Number(s, i, j) * UnitSeconds[k])
    ELSE [ok |-> FALSE, total |-> 0]

\* isodate.parse_duration followed by int(td.total_seconds()): an optional
\* sign, "P", at least one more character, then the components. A text that
\* does not match raises (ok = FALSE); a "-" sign negates the timedelta.
parse_duration(s) ==
    LET signed == Len(s) >= 1 /\ s[1] \in {"+", "-"}
        p == IF signed THEN 2 ELSE 1
    IN  IF Len(s) > p /\ s[p] = "P"
        THEN LET m == MatchPeriod(s, p + 1, 1, 0)
             IN  IF m.ok /\ signed /\ s[1] = "-"
                 THEN [ok |-> TRUE, total |-> 0 - m.total]
                 ELSE m
        ELSE [ok |-> FALSE, total |-> 0]

\* parse_iso8601_duration(d): d is None or a text
parse_iso8601_duration(dur) ==
    IF IsNone(dur) \/ Val(dur) = <<>> THEN None
    ELSE LET td == parse_duration(Val(dur))
         IN  IF td.ok THEN Some(td.total) ELSE None

\* The texts the codec is run on: every text of at most n characters
\* (n = MaxTextLen) over an alphabet that spells signed and unsigned periods and malformed
\* texts. No text over it of that length is in isodate's alternative
\* "PYYYY-MM-DDThh:mm:ss" form, so a text the regex rejects raises.
Alphabet == {"-", "P", "T", "7", "M", "S"}

Texts(n) == UNION {[1 .. k -> Alphabet] : k \in 0 .. n}

CodecIdle == d = None /\ seconds = None /\ duration_formatted = <<>>

Parse ==
    /\ pc = "ready"
    /\ pc' = "parsed"
    /\ seconds' = parse_iso8601_duration(d)
    /\ UNCHANGED <<d, duration_formatted, analyticsVars, rankVars,
                   recommenderVars, sessionVars>>

-----------------------------------------------------------------------------
(* Duration codec: src/yt_fetch.py format_duration *)

MaxSeconds == 7300

DigitChar == <<"0", "1", "2", "3", "4", "5", "6", "7", "8", "9">>

\* str(n) for n >= 0
RECURSIVE Decimal(_)
Decimal(n) ==
    IF n < 10 THEN <<DigitChar[n + 1]>>
    ELSE Decimal(n \div 10) \o <<DigitChar[(n % 10) + 1]>>

\* f"{n:02d}" for n >= 0
Pad2(n) == IF n < 10 THEN <<"0">> \o Decimal(n) ELSE Decimal(n)

\* format_duration with the seconds left unpadded ({secs} for {secs:02d})
format_duration_unpaddedSecs(secs) ==
    IF IsNone(secs) \/ Val(secs) = 0 THEN <<"0", ":", "0", "0">>
    ELSE LET hours == Val(secs) \div 3600
             minutes == (Val(secs) % 3600) \div 60
             s == Val(secs) % 60
         IN  IF hours > 0
             THEN Decimal(hours) \o <<":">> \o Pad2(minutes) \o <<":">> \o Decimal(s)
             ELSE Decimal(minutes) \o <<":">> \o Decimal(s)

\* format_duration(seconds): seconds is None or an integer. // and % round
\* toward minus infinity, as \div and % do.
format_duration(secs) ==
    IF IsNone(secs) \/ Val(secs) = 0 THEN <<"0", ":", "0", "0">>
    ELSE LET hours == Val(secs) \div 3600
             minutes == (Val(secs) % 3600) \div 60
             s == Val(secs) % 60
         IN  IF hours > 0
             THEN Decimal(hours) \o <<":">> \o Pad2(minutes) \o <<":">> \o Pad2(s)
             ELSE Decimal(minutes) \o <<":">> \o Pad2(s)

\* The counts format_duration is run on: None, every count from -61 to n
\* (n = MaxSeconds), and counts around ten, twenty-four and a hundred hours
FormatInputs(n) ==
    {None} \cup {Some(x) : x \in (-61 .. n) \cup {35999, 36000, 86399, 86400,
                                                  359999, 360000}}

Format ==
    /\ pc = "ready"
    /\ pc' = "formatted"
    /\ duration_formatted' = format_duration(seconds)
    /\ UNCHANGED <<d, seconds, analyticsVars, rankVars, recommenderVars, sessionVars>>

-----------------------------------------------------------------------------
(* Score engine: src/analytics.py calculate_optimization_score *)

\* 0.05, 0.02, 0.01 and 0.005
FivePercent == Rat(5, 100)
TwoPercent == Rat(2, 100)
OnePercent == Rat(1, 100)
HalfPercent == Rat(5, 1000)

\* video_data.get('duration_s', 0): the stored value is optional (None when
\* the duration text did not parse)
Duration(video) == Get(video, "duration_s", Some(0))

\* line 122
Clamp(score) == Max(0, Min(100, score))

\* RawScore with the 8-15 minute window opened at its lower end (480 < duration)
RawScore_strict480(duration, rate, title, views) ==
    50 + (IF duration < 120 THEN -10
          ELSE IF 480 < duration /\ duration <= 900 THEN 10
          ELSE IF duration > 1800 THEN -15 ELSE 0)
       + (IF RatGT(rate, Rat(5, 100)) THEN 15
          ELSE IF RatGT(rate, Rat(2, 100)) THEN 5
          ELSE IF RatLT(rate, Rat(5, 1000)) THEN -20 ELSE 0)
       + (IF Len(title) > 60 \/ Len(title) < 30 THEN -5 ELSE 0)
       + (IF views > 100000 THEN 10
          ELSE IF views > 10000 THEN 5
          ELSE IF views < 1000 THEN -10 ELSE 0)

\* lines 84-120: the base score and the four if/elif chains, in order
RawScore(duration, rate, title, views) ==
    LET base == 50
        afterDuration ==
            IF duration < 120 THEN base - 10
            ELSE IF 480 <= duration /\ duration <= 900 THEN base + 10
            ELSE IF duration > 1800 THEN base - 15
            ELSE base
        afterEngagement ==
            IF RatGT(rate, FivePercent) THEN afterDuration + 15
            ELSE IF RatGT(rate, TwoPercent) THEN afterDuration + 5
            ELSE IF RatLT(rate, HalfPercent) THEN afterDuration - 20
            ELSE afterDuration
        afterTitle ==
            IF Len(title) > 60 THEN afterEngagement - 5
            ELSE IF Len(title) < 30 THEN afterEngagement - 5
            ELSE afterEngagement
        afterViews ==
            IF views > 100000 THEN afterTitle + 10
            ELSE IF views > 10000 THEN afterTitle + 5
            ELSE IF views < 1000 THEN afterTitle - 10
            ELSE afterTitle
    IN  afterViews

\* calculate_optimization_score returning the running score as it is, with
\* the 30+ minute penalty of 15 written as 25
calculate_optimization_score_unclamped(video, rate) ==
    LET duration == Val(Duration(video))
        raw == RawScore(duration, rate, Get(video, "title", ""), Get(video, "views", 0))
    IN  Returned(IF duration > 1800 THEN raw - 10 ELSE raw)

\* None < 120 raises TypeError (line 93)
calculate_optimization_score(video, rate) ==
    LET duration == Duration(video)
        views == Get(video, "views", 0)
        title == Get(video, "title", "")
    IN  IF IsNone(duration) THEN Raised("TypeError")
        ELSE Returned(Clamp(RawScore(Val(duration), rate, title, views)))

-----------------------------------------------------------------------------
(* src/analytics.py generate_suggestions *)

SuggestLonger == "Consider making longer, more detailed content."
SuggestSeries == "Your video is quite long (30+ minutes)."
SuggestShortOk == "Short videos (under 5 minutes) can perform well if they're engaging."
SuggestGoodLength == "Your video length is in a good range."
SuggestHook == "Low engagement detected."
SuggestGreatEngagement == "Great engagement rate!"
SuggestConciseTitle == "Your title is quite long."
SuggestLongerTitle == "Your title might be too short."
SuggestChapters == "Add chapter markers or timestamps."
SuggestInterrupts == "Consider adding pattern interrupts every 2-3 minutes."
SuggestRetention == "Focus on building audience retention."
SuggestThumbnail == "Ensure your thumbnail and title work together."

When(cond, items) == IF cond THEN items ELSE <<>>

\* lines 124-163; duration is a number here (the caller raised before)
generate_suggestions(video, rate, duration, views) ==
    LET title == Get(video, "title", "")
    IN  (IF duration < 120 THEN <<SuggestLonger>>
         ELSE IF duration > 1800 THEN <<SuggestSeries>>
         ELSE IF duration < 300 THEN <<SuggestShortOk>>
         ELSE <<SuggestGoodLength>>)
        \o (IF RatLT(rate, OnePercent) THEN <<SuggestHook>>
            ELSE IF RatGT(rate, FivePercent) THEN <<SuggestGreatEngagement>>
            ELSE <<>>)
        \o (IF Len(title) > 60 THEN <<SuggestConciseTitle>>
            ELSE IF Len(title) < 20 THEN <<SuggestLongerTitle>>
            ELSE <<>>)
        \o When(duration > 600, <<SuggestChapters, SuggestInterrupts>>)
        \o When(views < 1000, <<SuggestRetention>>)
        \o <<SuggestThumbnail>>

-----------------------------------------------------------------------------
(* src/analytics.py generate_action_items *)

HighPriorityRetention == "High Priority: Major optimization needed."
HighPriorityTitle == "High Priority: Review your title and thumbnail."
MediumPriority == "Medium Priority: Moderate optimization opportunities."
Good == "Good: Your video is well-optimized."
TestLonger == "Test longer format content (8-15 minutes)."
Condense == "Consider creating a condensed version or adding chapter markers."
Interactive == "Add more interactive elements."
MonitorRetention == "Monitor audience retention graphs in YouTube Analytics."
ABTest == "A/B test different thumbnails for future videos."

\* BucketItems with the first limit inclusive (score <= 30)
BucketItems_inclusive30(score) ==
    IF score <= 30 THEN <<HighPriorityRetention, HighPriorityTitle>>
    ELSE IF score < 60 THEN <<MediumPriority>>
    ELSE <<Good>>

\* lines 169-175
BucketItems(score) ==
    IF score < 30 THEN <<HighPriorityRetention, HighPriorityTitle>>
    ELSE IF score < 60 THEN <<MediumPriority>>
    ELSE <<Good>>

\* lines 178-182
DurationItems(duration) ==
    IF duration < 120 THEN <<TestLonger>>
    ELSE IF duration > 1800 THEN <<Condense>>
    ELSE <<>>

\* line 184: the rate is recomputed, with views defaulting to 1
ActionEngagementRate(video) ==
    Rat(Get(video, "likes", 0) + Get(video, "comments", 0),
        Max(Get(video, "views", 1), 1))

\* lines 185-186
EngagementItems(video) ==
    When(RatLT(ActionEngagementRate(video), TwoPercent), <<Interactive>>)

\* lines 165-191; None < 120 raises TypeError (line 179)
generate_action_items(video, score, suggestions) ==
    LET duration == Duration(video)
    IN  IF IsNone(duration) THEN Raised("TypeError")
        ELSE Returned(BucketItems(score)
                      \o DurationItems(Val(duration))
                      \o EngagementItems(video)
                      \o <<MonitorRetention, ABTest>>)

-----------------------------------------------------------------------------
(* src/analytics.py analyze_single_video *)

\* EngagementRate counting the likes only
EngagementRate_likesOnly(views, likes, comments) ==
    IF views > 0 THEN Rat(likes, Max(views, 1)) ELSE Rat(0, 1)

\* EngagementRate without the views > 0 guard (as line 184 has it)
EngagementRate_unguarded(views, likes, comments) ==
    Rat(likes + comments, Max(views, 1))

\* line 41
EngagementRate(views, likes, comments) ==
    IF views > 0 THEN Rat(likes + comments, Max(views, 1)) ELSE Rat(0, 1)

\* lines 43-80 once the engagement rate is known. None * 0.5 raises TypeError
\* (line 45). The rounded percentages of the analysis (engagement_rate,
\* like_to_view_ratio, comment_to_view_ratio) are display values read by no
\* function of the core and are left out of the dict.
analyze_single_video(video) ==
    LET duration == Duration(video)
        views == Get(video, "views", 0)
        likes == Get(video, "likes", 0)
        comments == Get(video, "comments", 0)
        rate == EngagementRate(views, likes, comments)
    IN  IF IsNone(duration) THEN Raised("TypeError")
        ELSE
        LET dur == Val(duration)
            score == calculate_optimization_score(video, rate)
            suggestions == generate_suggestions(video, rate, dur, views)
            items == generate_action_items(video, score.value, suggestions)
        IN  Returned([current_watch_time |-> TruncDiv(views * dur, 2),
                      estimated_avg_watch_time |-> TruncDiv(dur, 2),
                      potential_improvement |-> TruncDiv(views * dur, 10),
                      optimization_score |-> score.value,
                      suggestions |-> suggestions,
                      action_items |-> items.value,
                      video_metrics |-> [duration |-> dur, views |-> views,
                                         likes |-> likes, comments |-> comments]])

-----------------------------------------------------------------------------
(* src/yt_fetch.py fetch_video_by_url: the dict built from the first item of
   the API response. `item` has the dicts snippet, statistics and
   contentDetails; the counts of statistics are the numbers their decimal
   texts denote. Only the keys the analytics functions read are kept. *)

fetch_video_by_url(item) ==
    LET snip == item.snippet
        stat == item.statistics
        content_details == item.contentDetails
        duration_iso == IF "duration" \in DOMAIN content_details
                        THEN Some(content_details["duration"]) ELSE None
        \* line 67: a text that is present but does not parse gives None
        duration_seconds ==
            IF ~IsNone(duration_iso) /\ Val(duration_iso) # <<>>
            THEN parse_iso8601_duration(duration_iso) ELSE Some(0)
    IN  [title |-> Get(snip, "title", "Unknown Title"),
         views |-> Get(stat, "viewCount", 0),
         likes |-> IF "likeCount" \in DOMAIN stat THEN stat["likeCount"] ELSE 0,
         comments |-> IF "commentCount" \in DOMAIN stat THEN stat["commentCount"] ELSE 0,
         duration_s |-> duration_seconds,
         duration_iso |-> duration_iso,
         duration_formatted |-> format_duration(duration_seconds)]

-----------------------------------------------------------------------------
(* Inputs *)

Restrict(f, K) == [k \in K |-> f[k]]

\* every dict that keeps a subset of the optional keys of one of the records
Dicts(records, required, optional) ==
    {Restrict(r, required \cup K) : r \in records, K \in SUBSET optional}

Title0 == ""
Title29 == "How to grow your channel watc"
Title30 == "How to grow your channel watch"
Title45 == "How to grow your channel watch time with bett"
Title60 == "How to grow your channel watch time with better hooks and pa"
Title61 == "How to grow your channel watch time with better hooks and pac"

\* Video records for the score engine and the action items: durations around
\* every threshold and below zero, views up to a billion, titles around 30
\* and 60 characters, likes and comments around 2% of 1000 views.
ScoreRecords ==
    Dicts([duration_s : {Some(x) : x \in {-5, 0, 119, 120, 479, 480, 900, 901, 1800, 1801}},
           views : {0, 999, 1000, 10000, 10001, 100000, 100001, 1000000000},
           title : {Title0, Title29, Title30, Title60, Title61},
           likes : {0, 19, 20},
           comments : {0, 1}],
          {"likes", "comments"}, {"duration_s", "views", "title"})

\* Engagement rates around 0.005, 0.02 and 0.05, below zero and above one
Rates ==
    {Rat(-1, 1000), Rat(0, 1), Rat(4, 1000), Rat(5, 1000), Rat(20, 1000),
     Rat(21, 1000), Rat(50, 1000), Rat(51, 1000), Rat(5, 1)}

\* Scores around the bucket limits 30 and 60, and outside [0, 100]
Scores == {-10, 0, 25, 29, 30, 59, 60, 100, 150}

\* Duration texts of the API: ten minutes, ninety seconds, forty-five
\* minutes, a signed period, a text that is no period, the empty text
PT10M == <<"P", "T", "1", "0", "M">>
PT90S == <<"P", "T", "9", "0", "S">>
PT45M == <<"P", "T", "4", "5", "M">>
MinusPT7S == <<"-", "P", "T", "7", "S">>
Malformed == <<"7", "S">>

ApiItems ==
    [snippet : Dicts([title : {Title29, Title45}], {}, {"title"}),
     statistics : Dicts([viewCount : {0, 500, 50000},
                         likeCount : {0, 5, 1000},
                         commentCount : {0, 200}],
                        {}, {"viewCount", "likeCount", "commentCount"}),
     contentDetails : Dicts([duration : {PT10M, PT90S, PT45M, MinusPT7S,
                                         Malformed, <<>>}],
                            {}, {"duration"})]

\* Records handed to analyze_single_video by a caller that fills in only
\* some of the fields
GivenRecords ==
    Dicts([duration_s : {Some(600), Some(90)},
           views : {50000, 0},
           likes : {1000},
           comments : {200}],
          {}, {"duration_s", "views", "likes", "comments"})

-----------------------------------------------------------------------------
(* Batch ranker: src/analytics.py compute_potential. A DataFrame is its set of
   columns and the sequence of its rows; a row is a dict over the columns and
   "index", the pandas index label (the row's position in the input frame,
   from 0), which sort_values carries along. *)

MaxRows == 3

\* potential_seconds_per_view without the clip
potential_seconds_per_view_unclipped(row) == row["duration_s"] - row["avgViewDuration"]

\* potential_score without the clip
potential_score_unclipped(row) == Rat(row["views"], row["duration_s"])

\* line 18, one row: (duration_s - avgViewDuration).clip(lower=0)
potential_seconds_per_view(row) == Max(row["duration_s"] - row["avgViewDuration"], 0)

\* line 19, one row
potential_watch_seconds(row) == row["views"] * potential_seconds_per_view(row)

\* line 23, one row: views / duration_s.clip(lower=1)
potential_score(row) == Rat(row["views"], Max(row["duration_s"], 1))

Extend(row, key, value) ==
    [k \in DOMAIN row \cup {key} |-> IF k = key THEN value ELSE row[k]]

\* lines 18-19 and line 23 on every row
Annotate(frame) ==
    IF "avgViewDuration" \in frame.columns
    THEN [columns |-> frame.columns \cup {"potential_seconds_per_view",
                                           "potential_watch_seconds"},
          rows |-> [i \in DOMAIN frame.rows |->
                      Extend(Extend(frame.rows[i], "potential_seconds_per_view",
                                    potential_seconds_per_view(frame.rows[i])),
                             "potential_watch_seconds",
                             potential_watch_seconds(frame.rows[i]))]]
    ELSE [columns |-> frame.columns \cup {"potential_score"},
          rows |-> [i \in DOMAIN frame.rows |->
                      Extend(frame.rows[i], "potential_score",
                             potential_score(frame.rows[i]))]]

\* the column the frame is sorted by (lines 20 and 24)
SortColumn(frame) ==
    IF "avgViewDuration" \in frame.columns
    THEN "potential_watch_seconds" ELSE "potential_score"

\* row a has a smaller value than row b in the column
Less(a, b, column) ==
    IF column = "potential_score"
    THEN RatLT(a[column], b[column]) ELSE a[column] < b[column]

\* ascending=False: no row is followed by a row with a larger value
Descending(rows, column) ==
    \A i, j \in DOMAIN rows : i < j => ~Less(rows[i], rows[j], column)

Arrangements(n) == {p \in [1 .. n -> 1 .. n] : \A i, j \in 1 .. n : p[i] = p[j] => i = j}

\* df.sort_values(column, ascending=False) with the default kind="quicksort":
\* numpy's introsort (or its vectorised replacement), which pandas documents
\* as not stable. Every arrangement of the rows that is in descending order
\* is an outcome; rows with equal values may come out in any order.
sort_values(rows, column) ==
    {out \in {[i \in DOMAIN rows |-> rows[p[i]]] : p \in Arrangements(Len(rows))} :
        Descending(out, column)}

\* compute_potential(df): df is copied (line 13), so the caller's frame stays
Rank ==
    /\ pc = "ready"
    /\ LET annotated == Annotate(df)
       IN  \E out \in sort_values(annotated.rows, SortColumn(df)) :
              ranked' = [columns |-> annotated.columns, rows |-> out]
    /\ pc' = "ranked"
    /\ UNCHANGED <<df, codecVars, analyticsVars, recommenderVars, sessionVars>>

\* Rows of a frame with analytics data, and of one without
RetentionRows ==
    [duration_s : {100, 120}, avgViewDuration : {40, 80, 130}, views : {1000, 2000}]

FallbackRows == [duration_s : {-5, 0, 60, 300}, views : {300, 600}]

\* the frame with the given rows, indexed 0, 1, ...
Frame(columns, rows) ==
    [columns |-> columns,
     rows |-> [i \in DOMAIN rows |-> Extend(rows[i], "index", i - 1)]]

\* every frame of at most n rows, with and without the analytics column
Frames(n) ==
    UNION {{Frame({"duration_s", "avgViewDuration", "views"}, rows) :
                rows \in [1 .. k -> RetentionRows]}
           \cup {Frame({"duration_s", "views"}, rows) :
                rows \in [1 .. k -> FallbackRows]} : k \in 0 .. n}

-----------------------------------------------------------------------------
(* src/recommender.py generate_technical_suggestions. The stored
   published_at_raw is a text; the empty tuple stands for both '' and None,
   which line 111 treats alike. *)

\* text.replace(old, new) for a one-character old
RECURSIVE Replace(_, _, _)
Replace(text, old, new) ==
    IF text = <<>> THEN <<>>
    ELSE (IF Head(text) = old THEN new ELSE <<Head(text)>>)
             \o Replace(Tail(text), old, new)

AllDigits(s, i, j) == j <= Len(s) /\ \A k \in i .. j : s[k] \in Digits

IsLeap(year) == year % 4 = 0 /\ (year % 100 # 0 \/ year % 400 = 0)

DaysInMonth(year, month) ==
    IF month = 2 THEN (IF IsLeap(year) THEN 29 ELSE 28)
    ELSE IF month \in {4, 6, 9, 11} THEN 30 ELSE 31

\* datetime.weekday(): Monday is 0, Sunday is 6
MonthShift == <<0, 3, 2, 5, 0, 3, 5, 1, 4, 6, 2, 4>>

weekday(year, month, day) ==
    LET y == IF month < 3 THEN year - 1 ELSE year
        sundayFirst == (y + y \div 4 - y \div 100 + y \div 400
                          + MonthShift[month] + day) % 7
    IN  (sundayFirst + 6) % 7

\* datetime.fromisoformat on the extended format: YYYY-MM-DD, then optionally
\* one separator character, a clock HH[:MM[:SS[.fff[fff]]]] and an offset
\* +HH:MM or -HH:MM. Any other text, and any field out of range, raises
\* ValueError. The result keeps the fields the caller reads.
fromisoformat(s) ==
    LET rest == SubSeq(s, 12, Len(s))
        signs == {k \in DOMAIN rest : rest[k] \in {"+", "-"}}
        cut == IF signs = {} THEN Len(rest) + 1
               ELSE CHOOSE k \in signs : \A x \in signs : k <= x
        clock == SubSeq(rest, 1, cut - 1)
        offset == SubSeq(rest, cut + 1, Len(rest))
        year == Number(s, 1, 5)
        month == Number(s, 6, 8)
        day == Number(s, 9, 11)
        hour == Number(clock, 1, 3)
        minute == IF Len(clock) >= 5 THEN Number(clock, 4, 6) ELSE 0
        second == IF Len(clock) >= 8 THEN Number(clock, 7, 9) ELSE 0
        dateOk == /\ AllDigits(s, 1, 4) /\ AllDigits(s, 6, 7) /\ AllDigits(s, 9, 10)
                  /\ s[5] = "-" /\ s[8] = "-"
                  /\ year >= 1 /\ month \in 1 .. 12
                  /\ day \in 1 .. DaysInMonth(year, month)
        clockOk == /\ Len(clock) \in {2, 5, 8, 12, 15}
                   /\ AllDigits(clock, 1, 2)
                   /\ Len(clock) >= 5 => clock[3] = ":" /\ AllDigits(clock, 4, 5)
                   /\ Len(clock) >= 8 => clock[6] = ":" /\ AllDigits(clock, 7, 8)
                   /\ Len(clock) >= 12 => clock[9] = "." /\ AllDigits(clock, 10, Len(clock))
                   /\ hour < 24 /\ minute < 60 /\ second < 60
        offsetOk == \/ signs = {}
                    \/ /\ Len(offset) = 5
                       /\ AllDigits(offset, 1, 2) /\ offset[3] = ":"
                       /\ AllDigits(offset, 4, 5)
                       /\ Number(offset, 1, 3) < 24 /\ Number(offset, 4, 6) < 60
    IN  IF dateOk /\ (Len(s) = 10 \/ (Len(s) >= 12 /\ clockOk /\ offsetOk))
        THEN Returned([year |-> year, month |-> month, day |-> day,
                       hour |-> IF Len(s) = 10 THEN 0 ELSE hour])
        ELSE Raised("ValueError")

TechAudio == "Focus on improving audio quality first"
TechLighting == "Ensure good lighting and clear visuals, especially in the first 15 seconds."
TechInterrupts == "Add pattern interrupts every 2-3 minutes"
TechVisualCues == "Include visual cues and on-screen text to help viewers follow along."
TechWeekend == "Consider testing weekday uploads as well"
TechOffPeak == "Your upload time might not be optimal."

\* lines 115-122, for the datetime pub_date
TimingMessages(pub_date) ==
    LET day_of_week == weekday(pub_date.year, pub_date.month, pub_date.day)
        hour == pub_date.hour
    IN  When(day_of_week \in {5, 6}, <<TechWeekend>>)
            \o When((0 <= hour /\ hour <= 6) \/ hour >= 22, <<TechOffPeak>>)

\* generate_technical_suggestions without the try/except of lines 112-124
generate_technical_suggestions_unguarded(video) ==
    LET duration == Duration(video)
        views == Get(video, "views", 0)
        published_at == Get(video, "published_at_raw", <<>>)
        pub == fromisoformat(Replace(published_at, "Z", <<"+", "0", "0", ":", "0", "0">>))
    IN  IF IsNone(duration) THEN Raised("TypeError")
        ELSE IF published_at # <<>> /\ pub.raised THEN pub
        ELSE Returned(When(views < 1000, <<TechAudio, TechLighting>>)
                 \o When(Val(duration) > 600, <<TechInterrupts, TechVisualCues>>)
                 \o (IF published_at # <<>> THEN TimingMessages(pub.value) ELSE <<>>))

\* lines 92-125. duration > 600 (line 106) raises TypeError on a duration_s of
\* None; whatever the parse of the timestamp raises is swallowed (line 123).
generate_technical_suggestions(video) ==
    LET duration == Duration(video)
        views == Get(video, "views", 0)
        published_at == Get(video, "published_at_raw", <<>>)
        pub == fromisoformat(Replace(published_at, "Z", <<"+", "0", "0", ":", "0", "0">>))
    IN  IF IsNone(duration) THEN Raised("TypeError")
        ELSE Returned(When(views < 1000, <<TechAudio, TechLighting>>)
                 \o When(Val(duration) > 600, <<TechInterrupts, TechVisualCues>>)
                 \o (IF published_at # <<>> /\ ~pub.raised
                     THEN TimingMessages(pub.value) ELSE <<>>))

\* the text YYYY-MM-DDTHH:00:00Z of the given fields (in range or not)
Stamp(year, month, day, hour) ==
    Decimal(year) \o <<"-">> \o Pad2(month) \o <<"-">> \o Pad2(day) \o <<"T">>
        \o Pad2(hour) \o <<":", "0", "0", ":", "0", "0", "Z">>

\* 2024-01-01 is a Monday: a week of days at the hours around the off-peak edges
WeekStamps == {Stamp(2024, 1, day, hour) : day \in 1 .. 7, hour \in {0, 6, 7, 21, 22, 23}}

\* other texts fromisoformat accepts: the date alone, a leap day, a fraction
\* of a second, an explicit offset, a blank for the T
OtherStamps ==
    {SubSeq(Stamp(2024, 1, day, 12), 1, 10) : day \in 5 .. 8}
        \cup {Stamp(2024, 2, 29, 23),
              SubSeq(Stamp(2024, 1, 7, 5), 1, 19) \o <<".", "0", "0", "0", "Z">>,
              SubSeq(Stamp(2024, 1, 6, 22), 1, 19) \o <<"-", "0", "5", ":", "0", "0">>,
              SubSeq(Stamp(2024, 1, 6, 22), 1, 10) \o <<" ">>
                  \o SubSeq(Stamp(2024, 1, 6, 22), 12, 20)}

\* texts fromisoformat rejects
BadStamps ==
    {Stamp(2024, 13, 6, 23), Stamp(2024, 1, 6, 24), Stamp(2023, 2, 29, 23),
     Stamp(2024, 2, 30, 23), Stamp(2024, 0, 6, 23), Stamp(999, 1, 6, 23),
     Stamp(2024, 1, 6, 23) \o <<"Z">>, SubSeq(Stamp(2024, 1, 6, 23), 1, 11),
     SubSeq(Stamp(2024, 1, 6, 23), 1, 19) \o <<"+", "2", "4", ":", "0", "0">>,
     <<"n", "o", "w">>, <<"Z">>, <<"S", "a", "t", "u", "r", "d", "a", "y">>}

\* the records generate_technical_suggestions is run on: each key present or not
TechnicalRecords ==
    Dicts({[views |-> v, duration_s |-> dur, published_at_raw |-> p] :
              v \in {999, 1000},
              dur \in {Some(600), Some(601), None},
              p \in WeekStamps \cup OtherStamps \cup BadStamps \cup {<<>>}},
          {}, {"views", "duration_s", "published_at_raw"})

-----------------------------------------------------------------------------
(* src/recommender.py cluster_videos. A DataFrame is modelled as for the
   ranker. The embedding of a text and the distances between embeddings are
   not modelled: the clustering returns any labelling it can return. *)

MaxVideos == 4

\* n_clusters=8 in the signature
DefaultClusters == 8

\* every labelling of n samples that uses exactly the labels 0 .. k-1
Labellings(n, k) ==
    {l \in [1 .. n -> 0 .. k - 1] : \A c \in 0 .. k - 1 : \E i \in 1 .. n : l[i] = c}

\* AgglomerativeClustering(n_clusters=k).fit(embs).labels_ for n embeddings:
\* scikit-learn rejects n_clusters < 1 and requires at least two samples
\* (ensure_min_samples=2), raising ValueError; otherwise the tree is cut into
\* exactly k clusters.
cluster_fit(n, k) ==
    IF k < 1 \/ n < 2 THEN {Raised("ValueError")}
    ELSE {Returned(l) : l \in Labellings(n, k)}

\* lines 12-19: the outcomes of cluster_videos(frame, k)
cluster_videos(frame, k) ==
    LET effective == Min(k, Len(frame.rows))
    IN  {IF fit.raised THEN fit
         ELSE Returned([columns |-> frame.columns \cup {"cluster"},
                        rows |-> [i \in DOMAIN frame.rows |->
                                     Extend(frame.rows[i], "cluster", fit.value[i])]]) :
            fit \in cluster_fit(Len(frame.rows), effective)}

VideoId(i) == <<"v">> \o Decimal(i)

\* every frame of at most n videos: identifier, title, views
VideoFrames(n) ==
    UNION {{Frame({"video_id", "title", "views"},
                  [i \in 1 .. k |-> [video_id |-> VideoId(i),
                                     title |-> "Video " \o "title",
                                     views |-> views[i]]]) :
                views \in [1 .. k -> {100, 200}]} : k \in 0 .. n}

-----------------------------------------------------------------------------
(* src/recommender.py suggest_playlists *)

MaxMembers == 3
MaxTopK == 2

\* topk_per_cluster=5 in the signature
DefaultTopK == 5

\* df['cluster'].unique()
unique(rows) == {rows[i].cluster : i \in DOMAIN rows}

\* df[df['cluster']==c]: the rows of cluster c in frame order
Members(rows, c) == SelectSeq(rows, LAMBDA row : row.cluster = c)

\* .head(n) for n >= 0
head(rows, n) == SubSeq(rows, 1, Min(n, Len(rows)))

\* f"cluster_{c}"
ClusterKey(c) == <<"c", "l", "u", "s", "t", "e", "r", "_">> \o Decimal(c)

\* top['video_id'].tolist()
VideoIds(rows) == [i \in DOMAIN rows |-> rows[i].video_id]

\* suggest_playlists that takes the first rows of each cluster without sorting
suggest_playlists_unsorted(frame, topk) ==
    LET labels == unique(frame.rows)
    IN  {[key \in {ClusterKey(c) : c \in labels} |->
             LET c == CHOOSE x \in labels : ClusterKey(x) = key
             IN  VideoIds(head(Members(frame.rows, c), topk))]}

\* lines 21-26: the outcomes of suggest_playlists(frame, topk), one for every
\* way the sorts of line 24 may arrange the rows of equal views
suggest_playlists(frame, topk) ==
    LET labels == unique(frame.rows)
        Sorted(c) == sort_values(Members(frame.rows, c), "views")
        sorts == {f \in [labels -> UNION {Sorted(c) : c \in labels}] :
                     \A c \in labels : f[c] \in Sorted(c)}
    IN  {[key \in {ClusterKey(c) : c \in labels} |->
             LET c == CHOOSE x \in labels : ClusterKey(x) = key
             IN  VideoIds(head(f[c], topk))] : f \in sorts}

\* every cluster-labelled frame of at most n videos; the labels need not be
\* consecutive
LabelledFrames(n) ==
    UNION {{Frame({"video_id", "views", "cluster"},
                  [i \in 1 .. k |-> [video_id |-> VideoId(i),
                                     views |-> views[i],
                                     cluster |-> cluster[i]]]) :
                views \in [1 .. k -> {100, 200, 300}],
                cluster \in [1 .. k -> {0, 1, 3}]} : k \in 0 .. n}

-----------------------------------------------------------------------------
(* src/recommender.py get_optimization_suggestions and the generators of its
   five categories (generate_technical_suggestions is above). A title is a
   text; a description and the tag list count by their length only; the
   engagement rate of analysis_data is a percentage, kept as a rational; the
   empty tuple stands for both None and {} as analysis_data, which line 131
   treats alike. *)

UpperCase == <<"A", "B", "C", "D", "E", "F", "G", "H", "I", "J", "K", "L", "M",
               "N", "O", "P", "Q", "R", "S", "T", "U", "V", "W", "X", "Y", "Z">>
LowerCase == <<"a", "b", "c", "d", "e", "f", "g", "h", "i", "j", "k", "l", "m",
               "n", "o", "p", "q", "r", "s", "t", "u", "v", "w", "x", "y", "z">>

\* str.lower() on ASCII text
lower(text) ==
    [i \in DOMAIN text |->
        IF \E k \in DOMAIN UpperCase : UpperCase[k] = text[i]
        THEN LowerCase[CHOOSE k \in DOMAIN UpperCase : UpperCase[k] = text[i]]
        ELSE text[i]]

\* keyword in text
Contains(text, keyword) ==
    \E i \in 1 .. Len(text) - Len(keyword) + 1 :
        SubSeq(text, i, i + Len(keyword) - 1) = keyword

Whitespace == {" ", "\t", "\n"}

\* len(text.split()): the number of maximal runs of non-whitespace
WordCount(text) ==
    Cardinality({i \in DOMAIN text :
                    text[i] \notin Whitespace /\ (i = 1 \/ text[i - 1] \in Whitespace)})

\* line 68
Keywords == {<<"h", "o", "w", " ", "t", "o">>, <<"t", "u", "t", "o", "r", "i", "a", "l">>,
             <<"g", "u", "i", "d", "e">>, <<"t", "i", "p", "s">>, <<"r", "e", "v", "i", "e", "w">>}

ContentKeywords == "Consider adding action-oriented keywords"
ContentDescriptive == "Your title could be more descriptive."
ContentShortDescription == "Your video description is quite short."
ContentTimestamps == "Add timestamps, key points, and relevant keywords to your description."
ContentTags == "Consider adding more relevant tags (10-15 tags)"
ContentShortVideo == "For short videos, focus on one specific value proposition."
ContentLongForm == "Long-form content works well if it maintains engagement."

\* lines 58-90, for a numeric duration
generate_content_strategy_suggestions(video) ==
    LET title == Get(video, "title", <<>>)
        description == Get(video, "description", <<>>)
        duration == Val(Duration(video))
        tags == Get(video, "tags", <<>>)
    IN  When(~\E keyword \in Keywords : Contains(lower(title), keyword), <<ContentKeywords>>)
            \o When(WordCount(title) < 5, <<ContentDescriptive>>)
            \o When(Len(description) < 100, <<ContentShortDescription, ContentTimestamps>>)
            \o When(Len(tags) < 5, <<ContentTags>>)
            \o (IF duration < 300 THEN <<ContentShortVideo>>
                ELSE IF duration > 1200 THEN <<ContentLongForm>> ELSE <<>>)

EngageHook == "Strengthen your opening hook."
EngagePromise == "Promise specific value in the first 30 seconds"
EngageMidVideo == "Add mid-video call-to-actions"
EngageQuestions == "Ask specific questions in the comments to encourage discussion."
EngageInteractive == "Low engagement detected. Try adding more interactive elements"
EngageDebate == "Create controversy or debate to encourage comments"
EngageFollowUp == "Great engagement! Consider creating follow-up content"

\* lines 127-152, for a numeric duration
generate_engagement_tactics(video, analysis) ==
    LET rate == IF analysis # <<>> THEN Get(analysis, "engagement_rate", Rat(0, 1))
                ELSE Rat(0, 1)
        duration == Val(Duration(video))
        views == Get(video, "views", 0)
    IN  When(duration > 300, <<EngageHook, EngagePromise>>)
            \o When(views > 1000, <<EngageMidVideo, EngageQuestions>>)
            \o (IF RatLT(rate, Rat(2, 1)) THEN <<EngageInteractive, EngageDebate>>
                ELSE IF RatGT(rate, Rat(5, 1)) THEN <<EngageFollowUp>> ELSE <<>>)

\* lines 162-177: the insight of each category id
category_suggestions ==
    "1" :> "Film & Animation" @@
    "2" :> "Autos & Vehicles" @@
    "10" :> "Music" @@
    "15" :> "Pets & Animals" @@
    "17" :> "Sports" @@
    "19" :> "Travel & Events" @@
    "20" :> "Gaming" @@
    "22" :> "People & Blogs" @@
    "23" :> "Comedy" @@
    "24" :> "Entertainment" @@
    "25" :> "News & Politics" @@
    "26" :> "Howto & Style" @@
    "27" :> "Education" @@
    "28" :> "Science & Technology"

InsightResearch == "Research top-performing videos in your niche"
InsightCollaborate == "Consider collaborating with creators in your field"

\* lines 154-186
generate_competitive_insights(video) ==
    LET category_id == Get(video, "category_id", "")
    IN  When(category_id \in DOMAIN category_suggestions,
             <<category_suggestions[category_id]>>)
            \o <<InsightResearch, InsightCollaborate>>

PostConsistency == "Focus on consistency over frequency."
PostPromote == "Promote your videos on social media platforms to drive initial views."
PostCommunities == "Share your video on relevant Reddit communities, Facebook groups, and Discord servers."
PostClips == "Create short clips or teasers for TikTok/Instagram Reels"
PostRespond == "Respond to comments within the first few hours"
PostCommunityPosts == "Create community posts to keep your audience engaged between video uploads."
PostSearch == "Use YouTube's search suggestions to optimize your title and description"
PostThumbnails == "Create custom thumbnails that create curiosity gaps"

\* generate_posting_strategy_suggestions with the SEO messages inside the
\* views > 1000 branch
generate_posting_strategy_suggestions_seoConditional(video) ==
    LET views == Get(video, "views", 0)
    IN  When(views < 500, <<PostConsistency, PostPromote>>)
            \o <<PostCommunities, PostClips>>
            \o When(views > 1000, <<PostRespond, PostCommunityPosts, PostSearch, PostThumbnails>>)

\* lines 188-213
generate_posting_strategy_suggestions(video) ==
    LET views == Get(video, "views", 0)
    IN  When(views < 500, <<PostConsistency, PostPromote>>)
            \o <<PostCommunities, PostClips>>
            \o When(views > 1000, <<PostRespond, PostCommunityPosts>>)
            \o <<PostSearch, PostThumbnails>>

\* lines 28-56: the dict, as the sequence of its items in insertion order. The
\* first generator raises TypeError on a duration_s of None (line 85).
get_optimization_suggestions(video, analysis) ==
    IF IsNone(Duration(video)) THEN Raised("TypeError")
    ELSE Returned(
        <<[category |-> "content_strategy",
           suggestions |-> generate_content_strategy_suggestions(video)],
          [category |-> "technical_optimization",
           suggestions |-> generate_technical_suggestions(video).value],
          [category |-> "engagement_tactics",
           suggestions |-> generate_engagement_tactics(video, analysis)],
          [category |-> "competitive_insights",
           suggestions |-> generate_competitive_insights(video)],
          [category |-> "posting_strategy",
           suggestions |-> generate_posting_strategy_suggestions(video)]>>)

\* a text of n characters, a list of n tags
Filler(n) == [i \in 1 .. n |-> "x"]
Tags(n) == [i \in 1 .. n |-> "tag"]

\* titles: empty; one word that is a keyword in capitals; five words without
\* a keyword; five words with one; "how" and "to" two blanks apart; four
\* words around a double blank; a word that contains "review"
SuggestionTitles ==
    {<<>>, <<"G", "U", "I", "D", "E">>, <<"a", " ", "b", " ", "c", " ", "d", " ", "e">>, <<"m", "y", " ", "T", "i", "p", "s", " ", "a", " ", "b", " ", "c">>,
     <<"h", "o", "w", " ", " ", "t", "o", " ", "x">>, <<"a", " ", "b", " ", "c", " ", " ", "d">>, <<"P", "r", "e", "v", "i", "e", "w", "s">>}

\* records that vary what the content strategy reads
ContentFamily ==
    Dicts({[title |-> t, description |-> Filler(n), tags |-> Tags(k), duration_s |-> dur,
            views |-> 1500] :
              t \in SuggestionTitles, n \in {99, 100}, k \in {4, 5},
              dur \in {Some(299), Some(300), Some(1200), Some(1201), None}},
          {"views"}, {"title", "description", "tags", "duration_s"})

\* records that vary the numbers, the category and the timestamp
NumberFamily ==
    Dicts({[title |-> <<"m", "y", " ", "T", "i", "p", "s", " ", "a", " ", "b", " ", "c">>, duration_s |-> dur, views |-> v,
            category_id |-> c, published_at_raw |-> p] :
              dur \in {Some(300), Some(301), Some(600), Some(601), None},
              v \in {499, 500, 999, 1000, 1001},
              c \in {"", "20", "28", "99", "020"},
              p \in {Stamp(2024, 1, 6, 23), Stamp(2024, 1, 1, 12), Stamp(2024, 13, 6, 23)}},
          {"title"}, {"duration_s", "views", "category_id", "published_at_raw"})

\* analysis inputs: none, one without the rate, rates around 2 and 5 percent
AnalysisInputs ==
    {<<>>, [optimization_score |-> 50]}
        \cup {[optimization_score |-> 50, engagement_rate |-> Rat(n, 100)] :
                 n \in {0, 199, 200, 500, 501}}

-----------------------------------------------------------------------------
(* src/dashboard.py: the session of one browser tab. Each click reruns the
   script; st.session_state is what survives between the runs. *)

\* [^&\n?#]
IdStop == {"&", "\n", "?", "#"}

\* the text p occurs in url at index i and an identifier character follows
PrefixAt(url, p, i) ==
    /\ i + Len(p) <= Len(url)
    /\ SubSeq(url, i, i + Len(p) - 1) = p
    /\ url[i + Len(p)] \notin IdStop

\* last index of the run of identifier characters that starts at index i
RECURSIVE IdEnd(_, _)
IdEnd(url, i) ==
    IF i < Len(url) /\ url[i + 1] \notin IdStop THEN IdEnd(url, i + 1) ELSE i

\* re.search(pattern, url).group(1) for a pattern (p1|p2|...)([^&\n?#]+):
\* the leftmost match, None when there is none
search(prefixes, url) ==
    LET hits == {i \in DOMAIN url : \E p \in prefixes : PrefixAt(url, p, i)}
    IN  IF hits = {} THEN None
        ELSE LET i == CHOOSE x \in hits : \A y \in hits : x <= y
                 p == CHOOSE x \in prefixes : PrefixAt(url, x, i)
             IN  Some(SubSeq(url, i + Len(p), IdEnd(url, i + Len(p))))

\* lines 21-32
extract_video_id(url) ==
    LET first == search({<<"y", "o", "u", "t", "u", "b", "e", ".", "c", "o", "m", "/", "w", "a", "t", "c", "h", "?", "v", "=">>,
                         <<"y", "o", "u", "t", "u", ".", "b", "e", "/">>,
                         <<"y", "o", "u", "t", "u", "b", "e", ".", "c", "o", "m", "/", "e", "m", "b", "e", "d", "/">>}, url)
    IN  IF ~IsNone(first) THEN first
        ELSE search({<<"y", "o", "u", "t", "u", "b", "e", ".", "c", "o", "m", "/", "v", "/">>}, url)

\* what the user may have typed when the button is clicked
Urls ==
    {<<>>, <<"h", "e", "l", "l", "o">>, <<"y", "o", "u", "t", "u", ".", "b", "e", "/">>,
     <<"y", "o", "u", "t", "u", ".", "b", "e", "/", "a", "1", "?", "t", "=", "5">>,
     <<"y", "o", "u", "t", "u", "b", "e", ".", "c", "o", "m", "/", "w", "a", "t", "c", "h", "?", "v", "=", "b", "2", "&", "x">>,
     <<"y", "o", "u", "t", "u", "b", "e", ".", "c", "o", "m", "/", "v", "/", "c", "3">>}

\* the items the API may return for an identifier
SessionItems ==
    [snippet : [title : {Title29, Title45}],
     statistics : [viewCount : {500, 50000}, likeCount : {5, 1000}],
     contentDetails : [duration : {PT10M, PT90S, Malformed}]]

-----------------------------------------------------------------------------
(* Specifications *)

AnalyticsIdle ==
    /\ video_data = <<>>
    /\ engagement_rate = Rat(0, 1)
    /\ optimization_score = 0
    /\ result = None

RankIdle == df = <<>> /\ ranked = <<>>

RecommenderIdle == analysis_data = None /\ n_clusters = None /\ topk_per_cluster = None

SessionIdle == session_state = [video_data |-> None, analysis |-> None]

\* The duration codec on every text
CodecInit ==
    /\ pc = "ready"
    /\ d \in {None} \cup {Some(t) : t \in Texts(MaxTextLen)}
    /\ seconds = None
    /\ duration_formatted = <<>>
    /\ AnalyticsIdle
    /\ RankIdle
    /\ RecommenderIdle
    /\ SessionIdle

CodecNext == Parse

SpecCodec == CodecInit /\ [][CodecNext]_vars

\* format_duration on every count
FormatInit ==
    /\ pc = "ready"
    /\ d = None
    /\ seconds \in FormatInputs(MaxSeconds)
    /\ duration_formatted = <<>>
    /\ AnalyticsIdle
    /\ RankIdle
    /\ RecommenderIdle
    /\ SessionIdle

FormatNext == Format

SpecFormat == FormatInit /\ [][FormatNext]_vars

\* calculate_optimization_score(video_data, engagement_rate)
CallScore ==
    /\ pc = "ready"
    /\ \E rate \in Rates :
          /\ engagement_rate' = rate
          /\ result' = calculate_optimization_score(video_data, rate)
    /\ pc' = "scored"
    /\ UNCHANGED <<video_data, optimization_score, codecVars, rankVars,
                   recommenderVars, sessionVars>>

\* generate_action_items(video_data, optimization_score, suggestions)
CallActionItems ==
    /\ pc = "ready"
    /\ \E score \in Scores :
          /\ optimization_score' = score
          /\ result' = generate_action_items(video_data, score, <<>>)
    /\ pc' = "itemized"
    /\ UNCHANGED <<video_data, engagement_rate, codecVars, rankVars,
                   recommenderVars, sessionVars>>

\* The score engine and the action items on every video record
ScoreInit ==
    /\ pc = "ready"
    /\ video_data \in ScoreRecords
    /\ engagement_rate = Rat(0, 1)
    /\ optimization_score = 0
    /\ result = None
    /\ CodecIdle
    /\ RankIdle
    /\ RecommenderIdle
    /\ SessionIdle

ScoreNext == CallScore \/ CallActionItems

SpecScore == ScoreInit /\ [][ScoreNext]_vars

\* The fetch layer builds the record from an API item
Fetch ==
    /\ pc = "ready"
    /\ \E item \in ApiItems : video_data' = fetch_video_by_url(item)
    /\ pc' = "fetched"
    /\ UNCHANGED <<engagement_rate, optimization_score, result, codecVars, rankVars,
                   recommenderVars, sessionVars>>

\* A caller supplies the record itself
Given ==
    /\ pc = "ready"
    /\ video_data' \in GivenRecords
    /\ pc' = "fetched"
    /\ UNCHANGED <<engagement_rate, optimization_score, result, codecVars, rankVars,
                   recommenderVars, sessionVars>>

\* analyze_single_video(video_data): engagement_rate and optimization_score
\* are its locals of lines 41 and 54 (the latter is not assigned when the
\* call raises before line 54)
Analyze ==
    /\ pc = "fetched"
    /\ engagement_rate' = EngagementRate(Get(video_data, "views", 0),
                                         Get(video_data, "likes", 0),
                                         Get(video_data, "comments", 0))
    /\ result' = analyze_single_video(video_data)
    /\ optimization_score' = IF result'.raised THEN optimization_score
                             ELSE result'.value.optimization_score
    /\ pc' = "analyzed"
    /\ UNCHANGED <<video_data, codecVars, rankVars,
                   recommenderVars, sessionVars>>

AnalyzeInit ==
    /\ pc = "ready"
    /\ AnalyticsIdle
    /\ CodecIdle
    /\ RankIdle
    /\ RecommenderIdle
    /\ SessionIdle

AnalyzeNext == Fetch \/ Given \/ Analyze

SpecAnalyze == AnalyzeInit /\ [][AnalyzeNext]_vars

\* The batch ranker on every frame of at most MaxRows rows
RankInit ==
    /\ pc = "ready"
    /\ df \in Frames(MaxRows)
    /\ ranked = <<>>
    /\ CodecIdle
    /\ AnalyticsIdle
    /\ RecommenderIdle
    /\ SessionIdle

RankNext == Rank

SpecRank == RankInit /\ [][RankNext]_vars

\* generate_technical_suggestions(video_data)
CallTechnical ==
    /\ pc = "ready"
    /\ pc' = "technical"
    /\ result' = generate_technical_suggestions(video_data)
    /\ UNCHANGED <<video_data, engagement_rate, optimization_score, codecVars,
                   rankVars, recommenderVars, sessionVars>>

TechnicalInit ==
    /\ pc = "ready"
    /\ video_data \in TechnicalRecords
    /\ engagement_rate = Rat(0, 1)
    /\ optimization_score = 0
    /\ result = None
    /\ CodecIdle
    /\ RankIdle
    /\ RecommenderIdle
    /\ SessionIdle

TechnicalNext == CallTechnical

SpecTechnical == TechnicalInit /\ [][TechnicalNext]_vars

\* cluster_videos(df, n_clusters): df is annotated in place (line 18)
Cluster ==
    /\ pc = "ready"
    /\ pc' = "clustered"
    /\ \E out \in cluster_videos(df, Val(n_clusters)) :
          /\ result' = out
          /\ df' = IF out.raised THEN df ELSE out.value
    /\ UNCHANGED <<ranked, codecVars, video_data, engagement_rate, optimization_score,
                   analysis_data, n_clusters, topk_per_cluster, sessionVars>>

ClusterInit ==
    /\ pc = "ready"
    /\ df \in VideoFrames(MaxVideos)
    /\ n_clusters \in {Some(k) : k \in (1 .. MaxVideos) \cup {DefaultClusters}}
    /\ ranked = <<>>
    /\ analysis_data = None
    /\ topk_per_cluster = None
    /\ AnalyticsIdle
    /\ CodecIdle
    /\ SessionIdle

ClusterNext == Cluster

SpecCluster == ClusterInit /\ [][ClusterNext]_vars

\* suggest_playlists(df, topk_per_cluster)
Suggest ==
    /\ pc = "ready"
    /\ pc' = "suggested"
    /\ \E out \in suggest_playlists(df, Val(topk_per_cluster)) :
          result' = Returned(out)
    /\ UNCHANGED <<df, ranked, codecVars, video_data, engagement_rate,
                   optimization_score, recommenderVars, sessionVars>>

PlaylistInit ==
    /\ pc = "ready"
    /\ df \in LabelledFrames(MaxMembers)
    /\ topk_per_cluster \in {Some(n) : n \in (0 .. MaxTopK) \cup {DefaultTopK}}
    /\ ranked = <<>>
    /\ analysis_data = None
    /\ n_clusters = None
    /\ AnalyticsIdle
    /\ CodecIdle
    /\ SessionIdle

PlaylistNext == Suggest

SpecPlaylist == PlaylistInit /\ [][PlaylistNext]_vars

\* get_optimization_suggestions(video_data, analysis_data)
CallSuggestions ==
    /\ pc = "ready"
    /\ pc' = "advised"
    /\ result' = get_optimization_suggestions(video_data, analysis_data)
    /\ UNCHANGED <<video_data, engagement_rate, optimization_score, codecVars,
                   rankVars, recommenderVars, sessionVars>>

SuggestionsInit ==
    /\ pc = "ready"
    /\ \/ video_data \in ContentFamily /\ analysis_data = None
       \/ video_data \in NumberFamily /\ analysis_data \in AnalysisInputs
    /\ n_clusters = None
    /\ topk_per_cluster = None
    /\ engagement_rate = Rat(0, 1)
    /\ optimization_score = 0
    /\ result = None
    /\ CodecIdle
    /\ RankIdle
    /\ SessionIdle

SuggestionsNext == CallSuggestions

SpecSuggestions == SuggestionsInit /\ [][SuggestionsNext]_vars

\* lines 46-68: a click on Analyze Video. Nothing happens without a url
\* (line 47) or without an identifier in it (line 50). items is what the API
\* returns for the identifier: fetch_video_by_url raises ValueError on an
\* empty list (yt_fetch.py line 57), and the handler catches it. The record is
\* stored (line 56) before the analysis runs (line 59); an analysis that
\* raises is caught as well and leaves the stored analysis as it was.
ClickAnalyze ==
    /\ \E url \in Urls :
          LET video_id == extract_video_id(url)
          IN  IF url = <<>> \/ IsNone(video_id)
              THEN /\ pc' = "rejected"
                   /\ UNCHANGED session_state
              ELSE \E items \in {<<>>} \cup {<<item>> : item \in SessionItems} :
                      IF items = <<>>
                      THEN /\ pc' = "fetch failed"
                           /\ UNCHANGED session_state
                      ELSE LET fetched == fetch_video_by_url(items[1])
                               analysis == analyze_single_video(fetched)
                           IN  /\ pc' = IF analysis.raised THEN "analysis failed"
                                        ELSE "analysis complete"
                               /\ session_state' =
                                     [video_data |-> Some(fetched),
                                      analysis |-> IF analysis.raised
                                                   THEN session_state.analysis
                                                   ELSE Some(analysis.value)]
    /\ UNCHANGED <<codecVars, analyticsVars, rankVars, recommenderVars>>

\* lines 120-124: the Analyze Another Video button is drawn only while a video
\* is stored (line 70)
ClickClear ==
    /\ ~IsNone(session_state.video_data)
    /\ session_state' = [video_data |-> None, analysis |-> None]
    /\ pc' = "cleared"
    /\ UNCHANGED <<codecVars, analyticsVars, rankVars, recommenderVars>>

SessionInit ==
    /\ pc = "ready"
    /\ SessionIdle
    /\ CodecIdle
    /\ AnalyticsIdle
    /\ RankIdle
    /\ RecommenderIdle

SessionNext == ClickAnalyze \/ ClickClear

SpecSession == SessionInit /\ [][SessionNext]_vars

-----------------------------------------------------------------------------
(* Properties of the score engine (SpecScore) *)

\* C1: for every video record and every engagement rate (negative durations,
\* billion-scale views, any title length), calculate_optimization_score
\* returns an integer in [0, 100].
C1_ScoreInRange ==
    pc = "scored" => /\ ~result.raised
                     /\ result.value \in 0 .. 100

\* C1 case: a record with a negative duration, a billion views and a title of
\* more than 60 characters has been scored.
C1_Witness ==
    /\ pc = "scored"
    /\ DOMAIN video_data = {"duration_s", "views", "title", "likes", "comments"}
    /\ Val(video_data["duration_s"]) < 0
    /\ video_data["views"] = 1000000000
    /\ Len(video_data["title"]) > 60
    /\ ~result.raised

\* The adjustment tables of C2, one factor each
DurationAdjustment(duration) ==
    CASE duration < 120 -> -10
      [] 480 <= duration /\ duration <= 900 -> 10
      [] duration > 1800 -> -15
      [] OTHER -> 0

EngagementAdjustment(rate) ==
    CASE RatGT(rate, Rat(5, 100)) -> 15
      [] RatGT(rate, Rat(2, 100)) /\ ~RatGT(rate, Rat(5, 100)) -> 5
      [] RatLT(rate, Rat(5, 1000)) -> -20
      [] OTHER -> 0

TitleAdjustment(length) ==
    IF length > 60 \/ length < 30 THEN -5 ELSE 0

ViewsAdjustment(views) ==
    CASE views > 100000 -> 10
      [] 10000 < views /\ views <= 100000 -> 5
      [] views < 1000 -> -10
      [] OTHER -> 0

TableScore(video, rate) ==
    LET sum == 50 + DurationAdjustment(Val(Get(video, "duration_s", Some(0))))
                  + EngagementAdjustment(rate)
                  + TitleAdjustment(Len(Get(video, "title", "")))
                  + ViewsAdjustment(Get(video, "views", 0))
    IN  IF sum < 0 THEN 0 ELSE IF sum > 100 THEN 100 ELSE sum

\* C2: for every duration, engagement rate, title length and view count the
\* score is clamp(50 + d + e + t + v, 0, 100), each of the four factors
\* contributing at most one adjustment of its table.
C2_ScoreIsTableSum ==
    pc = "scored" => /\ ~result.raised
                     /\ result.value = TableScore(video_data, engagement_rate)

\* C2 case: a record that draws a non-zero adjustment from each of the four
\* tables (+10 at the lower end of the 8-15 minute window, +15, -5, +10).
C2_Witness ==
    /\ pc = "scored"
    /\ Get(video_data, "duration_s", Some(0)) = Some(480)
    /\ RatGT(engagement_rate, Rat(5, 100))
    /\ Len(Get(video_data, "title", "")) > 60
    /\ Get(video_data, "views", 0) > 100000
    /\ result = Returned(80)

\* C5: the action items are B \o D \o E \o T: B the two high-priority items
\* when score < 30, the medium-priority item when 30 <= score < 60, the good
\* item when score >= 60; D at most one duration item; E at most one
\* engagement item; T the two constant items, always last. No conditional
\* item precedes a bucket item.
C5_ActionItemsShape ==
    pc = "itemized" =>
        /\ ~result.raised
        /\ LET items == result.value
               B == IF optimization_score < 30
                    THEN <<HighPriorityRetention, HighPriorityTitle>>
                    ELSE IF optimization_score < 60 THEN <<MediumPriority>>
                    ELSE <<Good>>
               n == Len(items)
           IN  /\ n >= Len(B) + 2
               /\ SubSeq(items, 1, Len(B)) = B
               /\ SubSeq(items, n - 1, n) = <<MonitorRetention, ABTest>>
               /\ SubSeq(items, Len(B) + 1, n - 2)
                    \in {<<>>, <<Interactive>>}
                        \cup {<<x>> : x \in {TestLonger, Condense}}
                        \cup {<<x, Interactive>> : x \in {TestLonger, Condense}}

\* C5 case: a score of 25 with a duration item and the engagement item:
\* six items, the two high-priority ones first.
C5_Witness ==
    /\ pc = "itemized"
    /\ optimization_score = 25
    /\ ~result.raised
    /\ result.value = <<HighPriorityRetention, HighPriorityTitle, TestLonger,
                        Interactive, MonitorRetention, ABTest>>

-----------------------------------------------------------------------------
(* Properties of single-video analysis (SpecAnalyze) *)

\* The record of C3: only duration, views, likes and comments are given
C3Record ==
    [duration_s |-> Some(600), views |-> 50000, likes |-> 1000, comments |-> 200]

\* C3 as stated: that record is analysed with engagement rate 1200/50000 and
\* optimization_score 70.
C3_ExampleScores70 ==
    (pc = "analyzed" /\ video_data = C3Record) =>
        /\ ~result.raised
        /\ RatEQ(engagement_rate, Rat(1200, 50000))
        /\ result.value.optimization_score = 70

\* C3 amended: that record is analysed with engagement rate 1200/50000 = 0.024
\* and optimization_score 65: base 50, +10 duration, +5 engagement, +5 views
\* and -5 for the title, which is missing, so empty, so shorter than 30.
C3_ExampleScores65 ==
    (pc = "analyzed" /\ video_data = C3Record) =>
        /\ ~result.raised
        /\ RatEQ(engagement_rate, Rat(24, 1000))
        /\ result.value.optimization_score = 65
        /\ result.value.optimization_score = 50 + 10 + 5 + 5 - 5
        /\ DurationAdjustment(600) = 10
        /\ EngagementAdjustment(engagement_rate) = 5
        /\ ViewsAdjustment(50000) = 5
        /\ TitleAdjustment(Len(Get(video_data, "title", ""))) = -5

\* C3 case: the record has been analysed.
C3_Witness ==
    /\ pc = "analyzed"
    /\ video_data = C3Record
    /\ ~result.raised

\* C4 as stated: the engagement rate computed and passed to scoring is
\* (likes + comments) / max(views, 1) for all views, likes, comments >= 0.
C4_RateIsQuotient ==
    pc = "analyzed" =>
        RatEQ(engagement_rate,
              Rat(Get(video_data, "likes", 0) + Get(video_data, "comments", 0),
                  IF Get(video_data, "views", 0) >= 1
                  THEN Get(video_data, "views", 0) ELSE 1))

\* C4 amended: the engagement rate is (likes + comments) / views when
\* views > 0, and 0 when views = 0, whatever likes and comments are.
C4_RateIsQuotientOrZero ==
    pc = "analyzed" =>
        LET views == Get(video_data, "views", 0)
            engaged == Get(video_data, "likes", 0) + Get(video_data, "comments", 0)
        IN  /\ views > 0 => /\ engagement_rate.num * views = engaged * engagement_rate.den
                            /\ engagement_rate.den > 0
            /\ views = 0 => engagement_rate.num = 0 /\ engagement_rate.den > 0

\* C4 case: a record with no views but likes or comments has been analysed.
C4_Witness ==
    /\ pc = "analyzed"
    /\ Get(video_data, "views", 0) = 0
    /\ Get(video_data, "likes", 0) + Get(video_data, "comments", 0) > 0
    /\ engagement_rate.num = 0

\* C9: analyze_single_video returns an analysis, without raising, for every
\* record the fetch layer can produce, a malformed duration text included.
C9_AnalyzeIsTotal ==
    pc = "analyzed" => ~result.raised

-----------------------------------------------------------------------------
(* Properties of the batch ranker (SpecRank) *)

RetentionMode(frame) == "avgViewDuration" \in frame.columns

\* the input row an output row stems from
Origin(row) == df.rows[row["index"] + 1]

\* the output holds every input row once, with the input's columns unaltered
SameRecords ==
    /\ Len(ranked.rows) = Len(df.rows)
    /\ {ranked.rows[i]["index"] : i \in DOMAIN ranked.rows} = 0 .. Len(df.rows) - 1
    /\ \A i \in DOMAIN ranked.rows :
          \A c \in df.columns : ranked.rows[i][c] = Origin(ranked.rows[i])[c]

\* The frames of the two examples of the ranker
RetentionExample ==
    Frame({"duration_s", "avgViewDuration", "views"},
          <<[duration_s |-> 120, avgViewDuration |-> 40, views |-> 1000],
            [duration_s |-> 100, avgViewDuration |-> 80, views |-> 2000]>>)

FallbackExample ==
    Frame({"duration_s", "views"},
          <<[duration_s |-> 60, views |-> 600], [duration_s |-> 300, views |-> 300]>>)

\* C6: in retention-gap mode compute_potential returns exactly the input
\* records, each annotated with potential_seconds_per_view =
\* max(duration - avg_view_duration, 0) and potential_watch_seconds = views *
\* potential_seconds_per_view, in non-increasing order of
\* potential_watch_seconds; the example gives 80000, 40000 in input order.
C6_RetentionGapRanking ==
    (pc = "ranked" /\ RetentionMode(df)) =>
        /\ SameRecords
        /\ \A i \in DOMAIN ranked.rows :
              LET row == ranked.rows[i]
                  gap == row["duration_s"] - row["avgViewDuration"]
              IN  /\ row["potential_seconds_per_view"] = IF gap > 0 THEN gap ELSE 0
                  /\ row["potential_watch_seconds"]
                        = row["views"] * row["potential_seconds_per_view"]
        /\ \A i, j \in DOMAIN ranked.rows :
              i < j => ranked.rows[i]["potential_watch_seconds"]
                          >= ranked.rows[j]["potential_watch_seconds"]
        /\ df = RetentionExample =>
              /\ ranked.rows[1]["potential_watch_seconds"] = 80000
              /\ ranked.rows[2]["potential_watch_seconds"] = 40000
              /\ ranked.rows[1]["index"] = 0
              /\ ranked.rows[2]["index"] = 1

\* C6 case: the example frame has been ranked.
C6_Witness ==
    /\ pc = "ranked"
    /\ df = RetentionExample
    /\ Len(ranked.rows) = 2

\* C7: in fallback mode compute_potential annotates every record with
\* potential_score = views / max(duration, 1), orders the records by
\* non-increasing potential_score and adds no retention-gap field; which mode
\* runs depends only on whether the average-view-duration column is there.
\* The example gives the scores 10 and 1 in that order.
C7_FallbackRanking ==
    pc = "ranked" =>
        /\ RetentionMode(df) =>
              ranked.columns = df.columns \cup {"potential_seconds_per_view",
                                                "potential_watch_seconds"}
        /\ ~RetentionMode(df) =>
              /\ ranked.columns = df.columns \cup {"potential_score"}
              /\ SameRecords
              /\ \A i \in DOMAIN ranked.rows :
                    LET row == ranked.rows[i]
                        floor == IF row["duration_s"] >= 1 THEN row["duration_s"] ELSE 1
                    IN  /\ row["potential_score"].den > 0
                        /\ row["potential_score"].num * floor
                              = row["views"] * row["potential_score"].den
              /\ \A i, j \in DOMAIN ranked.rows :
                    i < j => ~RatLT(ranked.rows[i]["potential_score"],
                                    ranked.rows[j]["potential_score"])
        /\ \A i \in DOMAIN ranked.rows :
              DOMAIN ranked.rows[i] = ranked.columns \cup {"index"}
        /\ df = FallbackExample =>
              /\ RatEQ(ranked.rows[1]["potential_score"], Rat(10, 1))
              /\ RatEQ(ranked.rows[2]["potential_score"], Rat(1, 1))
              /\ ranked.rows[1]["index"] = 0

\* C7 case: the fallback example has been ranked.
C7_Witness ==
    /\ pc = "ranked"
    /\ df = FallbackExample
    /\ "potential_score" \in ranked.columns

\* C8: in both modes two records with equal sort keys come out in the
\* relative order they had in the input.
C8_TiesKeepInputOrder ==
    pc = "ranked" =>
        \A i, j \in DOMAIN ranked.rows :
            (/\ i < j
             /\ ~Less(ranked.rows[i], ranked.rows[j], SortColumn(df))
             /\ ~Less(ranked.rows[j], ranked.rows[i], SortColumn(df)))
                => ranked.rows[i]["index"] < ranked.rows[j]["index"]

-----------------------------------------------------------------------------
(* Properties of the duration codec (SpecCodec) *)

\* C10: parse_iso8601_duration never raises; an absent or empty text gives
\* None, and whatever the text, the result is None (malformed) or a
\* non-negative integer number of seconds (well-formed).
C10_ParseAbsentOrNonNegative ==
    pc = "parsed" =>
        /\ (IsNone(d) \/ Val(d) = <<>>) => IsNone(seconds)
        /\ IsNone(seconds) \/ Val(seconds) >= 0

-----------------------------------------------------------------------------
(* Properties of format_duration (SpecFormat) *)

\* the components of a text, split at every ":"
RECURSIVE SplitColon(_)
SplitColon(text) ==
    IF \A i \in DOMAIN text : text[i] # ":" THEN <<text>>
    ELSE LET i == CHOOSE x \in DOMAIN text :
                    text[x] = ":" /\ \A y \in 1 .. x - 1 : text[y] # ":"
         IN  <<SubSeq(text, 1, i - 1)>> \o SplitColon(SubSeq(text, i + 1, Len(text)))

\* the number a component of decimal digits denotes
Read(component) == Number(component, 1, Len(component) + 1)

\* C11: for every non-negative seconds, format_duration renders hours =
\* seconds div 3600, minutes = (seconds mod 3600) div 60, secs = seconds mod 60
\* as H:MM:SS exactly when hours > 0 and as M:SS otherwise (minutes < 60,
\* secs < 60, secs always two digits, minutes two digits only in H:MM:SS), so
\* that the components read back give hours*3600 + minutes*60 + secs =
\* seconds; format_duration(0) is "0:00".
C11_FormatComponents ==
    (pc = "formatted" /\ ~IsNone(seconds) /\ Val(seconds) >= 0) =>
        LET n == Val(seconds)
            hours == n \div 3600
            minutes == (n % 3600) \div 60
            secs == n % 60
            parts == SplitColon(duration_formatted)
            last == parts[Len(parts)]
            mid == parts[Len(parts) - 1]
        IN  /\ \A i \in DOMAIN duration_formatted :
                  duration_formatted[i] \in Digits \cup {":"}
            /\ Len(parts) = IF hours > 0 THEN 3 ELSE 2
            /\ \A i \in DOMAIN parts : Len(parts[i]) >= 1
            /\ Len(last) = 2 /\ Read(last) = secs /\ Read(last) < 60
            /\ Read(mid) = minutes /\ Read(mid) < 60
            /\ Len(mid) = IF hours > 0 \/ minutes >= 10 THEN 2 ELSE 1
            /\ hours > 0 => Read(parts[1]) = hours /\ parts[1][1] # "0"
            /\ (IF hours > 0 THEN Read(parts[1]) ELSE 0) * 3600
                  + Read(mid) * 60 + Read(last) = n
            /\ n = 0 => duration_formatted = <<"0", ":", "0", "0">>

\* C11 case: a count of more than an hour with one-digit minutes and seconds
\* (2:01:05) has been rendered.
C11_Witness ==
    /\ pc = "formatted"
    /\ seconds = Some(7265)
    /\ duration_formatted = <<"2", ":", "0", "1", ":", "0", "5">>

-----------------------------------------------------------------------------
(* Properties of generate_technical_suggestions (SpecTechnical) *)

Elements(seq) == {seq[i] : i \in DOMAIN seq}

\* C12: generate_technical_suggestions never raises on the publication
\* timestamp (whether it raises does not depend on the timestamp at all); with
\* a malformed timestamp it returns exactly what it returns for an absent one,
\* with no timestamp-dependent message; with a parsable timestamp it appends,
\* after the views- and duration-triggered messages, the weekend message iff
\* the day is Saturday or Sunday and then the off-peak message iff the hour is
\* <= 6 or >= 22.
C12_TimestampNeverRaises ==
    pc = "technical" =>
        LET published_at == Get(video_data, "published_at_raw", <<>>)
            absent == generate_technical_suggestions(
                          Restrict(video_data, DOMAIN video_data \ {"published_at_raw"}))
            pub == fromisoformat(Replace(published_at, "Z", <<"+", "0", "0", ":", "0", "0">>))
            base == When(Get(video_data, "views", 0) < 1000, <<TechAudio, TechLighting>>)
                      \o When(Val(Duration(video_data)) > 600,
                              <<TechInterrupts, TechVisualCues>>)
        IN  /\ result.raised <=> IsNone(Duration(video_data))
            /\ result.raised <=> absent.raised
            /\ (published_at = <<>> \/ pub.raised) =>
                  /\ result = absent
                  /\ ~result.raised =>
                        /\ result.value = base
                        /\ Elements(result.value) \cap {TechWeekend, TechOffPeak} = {}
            /\ (published_at # <<>> /\ ~pub.raised /\ ~result.raised) =>
                  LET when == pub.value
                      weekend == weekday(when.year, when.month, when.day) \in {5, 6}
                      offPeak == when.hour <= 6 \/ when.hour >= 22
                  IN  result.value = base \o When(weekend, <<TechWeekend>>)
                                          \o When(offPeak, <<TechOffPeak>>)

\* C12 case: a video published on Saturday 2024-01-06 at 23:00 gets both timing
\* messages after the four others.
C12_Witness ==
    /\ pc = "technical"
    /\ "published_at_raw" \in DOMAIN video_data
    /\ video_data["published_at_raw"] = Stamp(2024, 1, 6, 23)
    /\ ~result.raised
    /\ result.value = <<TechAudio, TechLighting, TechInterrupts, TechVisualCues,
                        TechWeekend, TechOffPeak>>

-----------------------------------------------------------------------------
(* Properties of the clustering (SpecCluster) *)

\* C13: for every collection of n videos and target count K with n < K,
\* cluster_videos completes without error, uses the effective count
\* K' = min(K, n) = n and annotates every record with a label in [0, K'); for
\* K = 8 and 3 videos the effective count is 3.
C13_DegenerateClusters ==
    (pc = "clustered" /\ Len(df.rows) < Val(n_clusters)) =>
        LET n == Len(df.rows)
            effective == Min(Val(n_clusters), n)
        IN  /\ ~result.raised
            /\ effective = n
            /\ "cluster" \in df.columns
            /\ \A i \in DOMAIN df.rows : df.rows[i].cluster \in 0 .. effective - 1
            /\ Cardinality({df.rows[i].cluster : i \in DOMAIN df.rows}) = effective

-----------------------------------------------------------------------------
(* Properties of the playlist suggestion (SpecPlaylist) *)

\* the views of the video with the given identifier
ViewsOf(rows, id) == rows[CHOOSE i \in DOMAIN rows : rows[i].video_id = id].views

\* C14: for every cluster-labelled collection and every N, suggest_playlists
\* returns exactly one entry per cluster label that occurs in the collection;
\* the entry lists min(N, cluster size) identifiers, all of them members of
\* that cluster, in non-increasing order of views, and no member left out has
\* strictly more views than a member included.
C14_TopNPerCluster ==
    pc = "suggested" =>
        LET rows == df.rows
            labels == {rows[i].cluster : i \in DOMAIN rows}
            playlists == result.value
            N == Val(topk_per_cluster)
        IN  /\ ~result.raised
            /\ DOMAIN playlists = {ClusterKey(c) : c \in labels}
            /\ Cardinality(DOMAIN playlists) = Cardinality(labels)
            /\ \A c \in labels :
                  LET ids == playlists[ClusterKey(c)]
                      members == {rows[i].video_id : i \in {x \in DOMAIN rows : rows[x].cluster = c}}
                  IN  /\ Len(ids) = Min(N, Cardinality(members))
                      /\ \A k \in DOMAIN ids : ids[k] \in members
                      /\ \A j, k \in DOMAIN ids : j # k => ids[j] # ids[k]
                      /\ \A j, k \in DOMAIN ids :
                            j < k => ViewsOf(rows, ids[j]) >= ViewsOf(rows, ids[k])
                      /\ \A out \in members \ Elements(ids) :
                            \A k \in DOMAIN ids :
                               ViewsOf(rows, out) <= ViewsOf(rows, ids[k])

\* C14 case: a cluster of three videos whose first has the fewest views is cut
\* to its top two, and the first video is the one left out.
C14_Witness ==
    /\ pc = "suggested"
    /\ topk_per_cluster = Some(2)
    /\ Len(df.rows) = 3
    /\ \A i \in DOMAIN df.rows : df.rows[i].cluster = 3
    /\ df.rows[1].views = 100 /\ df.rows[2].views = 200 /\ df.rows[3].views = 300
    /\ result.value[ClusterKey(3)] = <<VideoId(3), VideoId(2)>>

-----------------------------------------------------------------------------
(* Properties of get_optimization_suggestions (SpecSuggestions) *)

Rule(holds, message) == [holds |-> holds, message |-> message]

\* the messages of the rules whose predicate holds, in rule order
Selected(rules) ==
    LET kept == SelectSeq(rules, LAMBDA rule : rule.holds)
    IN  [i \in DOMAIN kept |-> kept[i].message]

\* the fixed ordered rule list of each category, for a record and an analysis
RuleList(category, video, analysis) ==
    LET title == Get(video, "title", <<>>)
        duration == Val(Duration(video))
        views == Get(video, "views", 0)
        category_id == Get(video, "category_id", "")
        published_at == Get(video, "published_at_raw", <<>>)
        pub == fromisoformat(Replace(published_at, "Z", <<"+", "0", "0", ":", "0", "0">>))
        parsed == published_at # <<>> /\ ~pub.raised
        rate == IF "engagement_rate" \in DOMAIN analysis
                THEN analysis["engagement_rate"] ELSE Rat(0, 1)
    IN  CASE category = "content_strategy" ->
               <<Rule(\A keyword \in Keywords : ~Contains(lower(title), keyword),
                      ContentKeywords),
                 Rule(WordCount(title) < 5, ContentDescriptive),
                 Rule(Len(Get(video, "description", <<>>)) < 100, ContentShortDescription),
                 Rule(Len(Get(video, "description", <<>>)) < 100, ContentTimestamps),
                 Rule(Len(Get(video, "tags", <<>>)) < 5, ContentTags),
                 Rule(duration < 300, ContentShortVideo),
                 Rule(duration > 1200, ContentLongForm)>>
          [] category = "technical_optimization" ->
               <<Rule(views < 1000, TechAudio),
                 Rule(views < 1000, TechLighting),
                 Rule(duration > 600, TechInterrupts),
                 Rule(duration > 600, TechVisualCues),
                 Rule(parsed /\ weekday(pub.value.year, pub.value.month, pub.value.day) >= 5,
                      TechWeekend),
                 Rule(parsed /\ (pub.value.hour <= 6 \/ pub.value.hour >= 22), TechOffPeak)>>
          [] category = "engagement_tactics" ->
               <<Rule(duration > 300, EngageHook),
                 Rule(duration > 300, EngagePromise),
                 Rule(views > 1000, EngageMidVideo),
                 Rule(views > 1000, EngageQuestions),
                 Rule(RatLT(rate, Rat(2, 1)), EngageInteractive),
                 Rule(RatLT(rate, Rat(2, 1)), EngageDebate),
                 Rule(RatGT(rate, Rat(5, 1)), EngageFollowUp)>>
          [] category = "competitive_insights" ->
               <<Rule(category_id \in DOMAIN category_suggestions,
                      IF category_id \in DOMAIN category_suggestions
                      THEN category_suggestions[category_id] ELSE ""),
                 Rule(TRUE, InsightResearch),
                 Rule(TRUE, InsightCollaborate)>>
          [] category = "posting_strategy" ->
               <<Rule(views < 500, PostConsistency),
                 Rule(views < 500, PostPromote),
                 Rule(TRUE, PostCommunities),
                 Rule(TRUE, PostClips),
                 Rule(views > 1000, PostRespond),
                 Rule(views > 1000, PostCommunityPosts),
                 Rule(TRUE, PostSearch),
                 Rule(TRUE, PostThumbnails)>>

Categories ==
    <<"content_strategy", "technical_optimization", "engagement_tactics",
      "competitive_insights", "posting_strategy">>

\* the messages of wanted occur in seq, in this order
OccurInOrder(wanted, seq) ==
    \E at \in [DOMAIN wanted -> DOMAIN seq] :
        /\ \A i \in DOMAIN wanted : seq[at[i]] = wanted[i]
        /\ \A i, j \in DOMAIN wanted : i < j => at[i] < at[j]

\* C15: for every video record (numeric duration) and analysis input,
\* get_optimization_suggestions returns exactly the five categories
\* content_strategy, technical_optimization, engagement_tactics,
\* competitive_insights, posting_strategy in that order; each category's
\* sequence is made of exactly the messages of its rule list whose predicate
\* holds, in rule order; competitive_insights always ends with its two general
\* insights, preceded by one category insight iff category_id is a key of the
\* category table; posting_strategy always contains its four constant
\* messages in order.
C15_FiveCategoriesByRules ==
    (pc = "advised" /\ ~IsNone(Duration(video_data))) =>
        /\ ~result.raised
        /\ Len(result.value) = 5
        /\ \A i \in 1 .. 5 :
              /\ result.value[i].category = Categories[i]
              /\ result.value[i].suggestions =
                    Selected(RuleList(Categories[i], video_data, analysis_data))
        /\ LET insights == result.value[4].suggestions
               inTable == Get(video_data, "category_id", "") \in DOMAIN category_suggestions
           IN  /\ Len(insights) = IF inTable THEN 3 ELSE 2
               /\ SubSeq(insights, Len(insights) - 1, Len(insights))
                     = <<InsightResearch, InsightCollaborate>>
               /\ inTable => insights[1] = category_suggestions[video_data["category_id"]]
        /\ OccurInOrder(<<PostCommunities, PostClips, PostSearch, PostThumbnails>>,
                        result.value[5].suggestions)

\* C15 case: a gaming video of 601 seconds and 1001 views published on a
\* Saturday night, analysed with a rate of 5.01 percent.
C15_Witness ==
    /\ pc = "advised"
    /\ ~result.raised
    /\ analysis_data # <<>>
    /\ Get(analysis_data, "engagement_rate", Rat(0, 1)) = Rat(501, 100)
    /\ result.value[2].suggestions = <<TechInterrupts, TechVisualCues, TechWeekend, TechOffPeak>>
    /\ result.value[3].suggestions =
          <<EngageHook, EngagePromise, EngageMidVideo, EngageQuestions, EngageFollowUp>>
    /\ result.value[4].suggestions =
          <<category_suggestions["20"], InsightResearch, InsightCollaborate>>
    /\ result.value[5].suggestions =
          <<PostCommunities, PostClips, PostRespond, PostCommunityPosts,
            PostSearch, PostThumbnails>>

-----------------------------------------------------------------------------
(* Properties of the dashboard session (SpecSession) *)

\* C16: in every reachable state of a dashboard session, the stored analysis
\* is either None or was computed from the currently stored video_data; the
\* dashboard never shows an analysis of one video next to the information of
\* another.
C16_AnalysisOfStoredVideo ==
    \/ IsNone(session_state.analysis)
    \/ /\ ~IsNone(session_state.video_data)
       /\ analyze_single_video(Val(session_state.video_data))
             = Returned(Val(session_state.analysis))

-----------------------------------------------------------------------------
(* Properties of the two engagement rates of one analysis (SpecAnalyze) *)

\* C17: for every video record (views = 0 included), the engagement rate that
\* generate_action_items recomputes to decide the interactive-elements item
\* equals the rate analyze_single_video computed and passed to
\* calculate_optimization_score, so within one analysis the item appears iff
\* the scored rate is below 0.02.
C17_OneEngagementRate ==
    (pc = "analyzed" /\ ~result.raised) =>
        /\ RatEQ(ActionEngagementRate(video_data), engagement_rate)
        /\ Interactive \in Elements(result.value.action_items)
              <=> RatLT(engagement_rate, TwoPercent)

====
